---- MODULE Spec2Model ----
(***************************************************************************)
(* A model of scraper.py: the paginated fetch loop with its checkpoint     *)
(* (process_articles_or_questions, save_progress, load_progress), the      *)
(* retrying POST (request_with_retries), the combiner (combine_json_files) *)
(* and the driver (__main__) that runs fetch-then-combine for the three    *)
(* collections.                                                            *)
(*                                                                         *)
(* Strings the code inspects character by character (objectID, body) are   *)
(* sequences of one-character strings; a body's HTML tags are single       *)
(* tokens.  Files are records with a state "absent" / "invalid" / "json":  *)
(* "invalid" is a file that json.load rejects (for instance the empty file *)
(* left by open(..., 'w') when the process dies before json.dump).         *)
(***************************************************************************)
EXTENDS Integers, Sequences, FiniteSets, Bags, TLC

(***************************************************************************)
(* Bounds of the model                                                     *)
(***************************************************************************)
\* the API may answer pages 0..MaxPage with anything; later pages are empty
MaxPage == 1
\* runs of the program (driver) in a behaviour of Spec
MaxRuns == 2
\* calls of process_articles_or_questions in a behaviour of SpecFetch
MaxFetchRuns == 3
\* record writes that fail in one run of the program in a behaviour of SpecDisk
MaxWriteFailures == 1

(***************************************************************************)
(* Program constants                                                       *)
(***************************************************************************)
\* one attempt more than the code makes
MAX_RETRIES_four == 3 + 1

MAX_RETRIES == 3

\* articles, news_articles, questions: the order of __main__
Collections == 1..3

(***************************************************************************)
(* sanitize_filename                                                       *)
(***************************************************************************)
\* what str.strip() removes at both ends ("VT" stands for \x0b)
StripChars == {" ", "\t", "\n", "\r", "VT", "\f"}
\* the class [\\/*?:"<>|] of the first re.sub
IllegalChars == {"\\", "/", "*", "?", ":", "\"", "<", ">", "|"}
\* the class [\t\n\r\x0b\x0c] of the second re.sub
ControlChars == {"\t", "\n", "\r", "VT", "\f"}

RECURSIVE lstrip(_)
lstrip(s) ==
    IF s # << >> /\ Head(s) \in StripChars THEN lstrip(Tail(s)) ELSE s

RECURSIVE rstrip(_)
rstrip(s) ==
    IF s # << >> /\ s[Len(s)] \in StripChars
    THEN rstrip(SubSeq(s, 1, Len(s) - 1))
    ELSE s

strip(s) == rstrip(lstrip(s))

replace_space(s) == [i \in 1..Len(s) |-> IF s[i] = " " THEN "_" ELSE s[i]]

NotIllegal(ch) == ch \notin IllegalChars
NotControl(ch) == ch \notin ControlChars

sanitize_filename(filename) ==
    SelectSeq(SelectSeq(replace_space(strip(filename)), NotIllegal), NotControl)

(***************************************************************************)
(* html_to_text and remove_templating_patterns                             *)
(***************************************************************************)
\* the HTML tags of the modelled bodies, one token each
TagTokens == {"<p>", "</p>"}
NotTag(tok) == tok \notin TagTokens

\* BeautifulSoup(html, 'html.parser').get_text(): the text nodes, tags dropped
html_to_text(html_content) == SelectSeq(html_content, NotTag)

\* index of the first brace at or after position i of s, 0 when there is none
RECURSIVE NextBrace(_, _)
NextBrace(s, i) ==
    IF i > Len(s) THEN 0
    ELSE IF s[i] \in {"{", "}"} THEN i
    ELSE NextBrace(s, i + 1)

\* re.sub(r'\{[^{}]*\}', '', text): leftmost non-overlapping matches removed
RECURSIVE remove_templating_patterns(_)
remove_templating_patterns(text) ==
    IF text = << >> THEN << >>
    ELSE IF Head(text) = "{"
              /\ NextBrace(text, 2) # 0
              /\ text[NextBrace(text, 2)] = "}"
         THEN remove_templating_patterns(
                  SubSeq(text, NextBrace(text, 2) + 1, Len(text)))
         ELSE <<Head(text)>> \o remove_templating_patterns(Tail(text))

(***************************************************************************)
(* The API's answers                                                       *)
(***************************************************************************)
\* a hit of results[0].hits; item.get(k, "") makes an absent title, body
\* or url the same as an empty one, objectID is read with item["objectID"]
Hit(id, title, body) ==
    [hasId |-> TRUE, objectID |-> id, title |-> title, body |-> body,
     url |-> "u"]
HitNoId(title, body) ==
    [hasId |-> FALSE, objectID |-> << >>, title |-> title, body |-> body,
     url |-> "u"]

\* a response body: kind "json" is a JSON document with results[0].hits,
\* "nohits" a JSON document without it, "notjson" text json.loads rejects,
\* "notutf8" bytes that content.decode('utf-8') rejects
JsonPage(hits) == [kind |-> "json", hits |-> hits]
EmptyPage == JsonPage(<< >>)
NotJsonBody == [kind |-> "notjson", hits |-> << >>]
NoHitsBody == [kind |-> "nohits", hits |-> << >>]
NotUtf8Body == [kind |-> "notutf8", hits |-> << >>]

\* page 0 of the spec's end-to-end scenario: the hits a1 and a2
PageA == JsonPage(<<Hit(<<"a", "1">>, "t", <<"<p>", "x", "</p>">>),
                    Hit(<<"a", "2">>, "", <<"y", "{", "n", "}">>)>>)
\* an objectID that sanitizes to a2, and a1 again with another body
PageB == JsonPage(<<Hit(<<" ", "a", "/", "2">>, "t", <<"z">>),
                    Hit(<<"a", "1">>, "t", <<"z">>)>>)
\* a hit without objectID before one with
PageD == JsonPage(<<HitNoId("t", <<"x">>), Hit(<<"a", "3">>, "t", <<"x">>)>>)

PagePool ==
    {PageA, PageB, PageD, EmptyPage, NotJsonBody, NoHitsBody, NotUtf8Body}

Pages == 0..MaxPage
ApiSet == [Pages -> PagePool]
\* the API a collection whose answers are not varied gives: the two hits
\* a1, a2 on page 0 and nothing after
PlainApi == [p \in Pages |-> IF p = 0 THEN PageA ELSE EmptyPage]

\* the API of a collection that holds nothing
EmptyApi == [p \in Pages |-> EmptyPage]

AllHits == UNION {{b.hits[i] : i \in 1..Len(b.hits)} : b \in PagePool}

(***************************************************************************)
(* Files                                                                   *)
(***************************************************************************)
NoData == [objectID |-> << >>, title |-> "", body |-> << >>, url |-> ""]
NoFile == [st |-> "absent", data |-> NoData]
EmptyFile == [st |-> "invalid", data |-> NoData]
\* a record file whose bytes stop inside a multi-byte character (the records
\* are written with ensure_ascii=False): reading it as UTF-8 fails
CutFile == [st |-> "notutf8", data |-> NoData]
JsonFile(d) == [st |-> "json", data |-> d]

\* item_data of lines 197-202
item_data(item) ==
    [objectID |-> item.objectID,
     title |-> item.title,
     body |-> remove_templating_patterns(html_to_text(item.body)),
     url |-> item.url]

\* filename of line 204
record_filename(item) == sanitize_filename(item.objectID) \o <<".json">>

FileNames == {record_filename(h) : h \in {x \in AllHits : x.hasId}}

NoProgress == [st |-> "absent", hasPage |-> FALSE, page |-> 0]
EmptyProgress == [st |-> "invalid", hasPage |-> FALSE, page |-> 0]
PageProgress(n) == [st |-> "object", hasPage |-> TRUE, page |-> n]
\* checkpoint files save_progress does not leave: one open cannot read, one
\* holding a JSON document that is not an object ([], 5, null), and one
\* holding an object without the key page
UnreadableProgress == [st |-> "unreadable", hasPage |-> FALSE, page |-> 0]
NonObjectProgress == [st |-> "nonobject", hasPage |-> FALSE, page |-> 0]
NoPageProgress == [st |-> "object", hasPage |-> FALSE, page |-> 0]

NoCombined == [st |-> "absent", items |-> EmptyBag]

(***************************************************************************)
(* State                                                                   *)
(***************************************************************************)
VARIABLES
    api,        \* the API: collection -> page -> response body (never changes)
    combined,   \* data/all_<collection>.json, per collection
    progress,   \* progress_<collection>.json, per collection
    records,    \* data/<collection>/: file name -> file, per collection
    run,        \* number of the current run (of the program, or of the fetcher)
    coll,       \* the collection __main__ is at
    pc,         \* where the program is
    page,       \* process_articles_or_questions: page
    has_more,   \* process_articles_or_questions: has_more
    response,   \* process_articles_or_questions: response (NoResponse: None)
    idx,        \* position of the for loop of line 192 in items
    attempt,    \* request_with_retries: attempt
    posts,      \* POSTs and failed POSTs of the current request_with_retries
    cur,        \* what each collection's fetcher did in the current run
    prev        \* cur and progress as the previous run left them, and the
                \* collections whose fetcher met an empty page in a run before

vars ==
    <<api, combined, progress, records, run, coll, pc, page, has_more,
      response, idx, attempt, posts, cur, prev>>

NoResponse == [kind |-> "none", hits |-> << >>]
NoPosts == [sent |-> 0, failed |-> 0]

\* no record write of the fetcher has failed: the page and the hit of the
\* last failure, and the number of failures
NoIOError == [page |-> -1, idx |-> 0, n |-> 0]

\* a fetcher not called yet: its outcome, why its loop ended, the first page
\* it requested (-1: none), the last page a request of it succeeded for
\* (-1: none), the value of page when it ended, whether a POST of it failed,
\* and the page and hit of its last failed record write
NotCalled ==
    [outcome |-> "none", cause |-> "none", first |-> -1, last |-> -1,
     page |-> -1, failed |-> FALSE, ioerr |-> NoIOError]

\* the answer of the API for page p of collection c
Body(c, p) == IF p \in Pages THEN api[c][p] ELSE EmptyPage

FreshFiles ==
    /\ combined = [c \in Collections |-> NoCombined]
    /\ progress = [c \in Collections |-> NoProgress]
    /\ records = [c \in Collections |-> [f \in FileNames |-> NoFile]]

Start ==
    /\ run = 1
    /\ coll = 1
    /\ pc = "check"
    /\ page = 0
    /\ has_more = TRUE
    /\ response = NoResponse
    /\ idx = 0
    /\ attempt = 0
    /\ posts = NoPosts
    /\ cur = [c \in Collections |-> NotCalled]
    /\ prev = [cur |-> [c \in Collections |-> NotCalled],
               progress |-> [c \in Collections |-> NoProgress],
               done |-> {}]

\* a first run of the program on an empty disk; one collection's API answers
\* range over ApiSet
Init ==
    /\ api \in {[c \in Collections |-> IF c = d THEN f ELSE PlainApi] :
                    d \in Collections, f \in ApiSet}
    /\ FreshFiles
    /\ Start

\* a first call of process_articles_or_questions for articles on an empty disk
InitFetch ==
    /\ api \in {[c \in Collections |-> IF c = 1 THEN f ELSE PlainApi] :
                    f \in ApiSet}
    /\ FreshFiles
    /\ Start

(***************************************************************************)
(* load_progress, save_progress                                            *)
(***************************************************************************)
\* json.load(f).get("page", 0) raises AttributeError, which the except of
\* line 90 does not name, when the document is not an object
load_progress_raises(pf) == pf.st = "nonobject"

\* a resume page one after the stored one
load_progress_next(pf) ==
    IF pf.st = "object" /\ pf.hasPage THEN pf.page + 1 ELSE 0

load_progress(pf) == IF pf.st = "object" /\ pf.hasPage THEN pf.page ELSE 0

\* a checkpoint that runs ahead: the page after the next one
save_progress_ahead(pg) == PageProgress(pg + 2)

\* a checkpoint that names the next page to fetch
save_progress_next(pg) == PageProgress(pg + 1)

\* the file json.dump({"page": page}, f) leaves
save_progress(pg) == PageProgress(pg)

(***************************************************************************)
(* process_articles_or_questions                                           *)
(***************************************************************************)
\* a guard that never sees the file
os_path_exists_never(file) == FALSE

os_path_exists(file) == file.st # "absent"

\* the locals of a fetcher that is not running
NoLocals ==
    /\ page' = 0
    /\ has_more' = TRUE
    /\ response' = NoResponse
    /\ idx' = 0
    /\ attempt' = 0
    /\ posts' = NoPosts

\* an exception leaves process_articles_or_questions, and with it __main__
Raise(why) ==
    /\ pc' = "raised"
    /\ cur' = [cur EXCEPT ![coll].outcome = "raised", ![coll].cause = why,
                          ![coll].page = page]
    /\ NoLocals

\* lines 131-162: the skip-if-combined guard, then the resume page
CheckExisting ==
    /\ pc = "check"
    /\ IF os_path_exists(combined[coll])
       THEN /\ pc' = "returned"
            /\ cur' = [cur EXCEPT ![coll].outcome = "skipped"]
            /\ NoLocals
       ELSE IF load_progress_raises(progress[coll])
       THEN Raise("load_progress")
       ELSE /\ pc' = "request"
            /\ cur' = [cur EXCEPT ![coll].outcome = "running"]
            /\ page' = load_progress(progress[coll])
            /\ has_more' = TRUE
            /\ response' = NoResponse
            /\ idx' = 0
            /\ attempt' = 0
            /\ posts' = NoPosts
    /\ UNCHANGED <<api, combined, progress, records, run, coll, prev>>

\* line 114: another attempt follows a failed one
retry_left(a) == a < MAX_RETRIES - 1

\* lines 107-118, one pass of the for loop: a POST that succeeds (2xx/3xx)
\* returns the response, one that fails (RequestException) is retried after
\* the sleep or, on the last attempt, returns None
request_with_retries ==
    /\ pc = "request"
    /\ attempt < MAX_RETRIES
    /\ \E ok \in BOOLEAN :
        /\ posts' = [sent |-> posts.sent + 1,
                     failed |-> posts.failed + (IF ok THEN 0 ELSE 1)]
        /\ cur' = [cur EXCEPT
                      ![coll].first = IF @ = -1 THEN page ELSE @,
                      ![coll].last = IF ok THEN page ELSE @,
                      ![coll].failed = @ \/ ~ok]
        /\ IF ok
           THEN /\ response' = Body(coll, page)
                /\ pc' = "response"
                /\ UNCHANGED attempt
           ELSE IF retry_left(attempt)
           THEN /\ attempt' = attempt + 1
                /\ UNCHANGED <<response, pc>>
           ELSE /\ response' = NoResponse
                /\ pc' = "response"
                /\ UNCHANGED attempt
    /\ UNCHANGED <<api, combined, progress, records, run, coll, page,
                   has_more, idx, prev>>

\* the loop of line 164 is left by a break
Break(why) ==
    /\ pc' = "after_loop"
    /\ cur' = [cur EXCEPT ![coll].cause = why]

\* lines 178-190: None ends the loop; the body is decoded and parsed; an
\* empty hits ends the loop with has_more False; json.JSONDecodeError is
\* caught (line 217), nothing else is
HandleResponse ==
    /\ pc = "response"
    /\ IF response.kind = "none"
       THEN /\ Break("failure")
            /\ UNCHANGED <<page, has_more, response, idx, attempt, posts>>
       ELSE IF response.kind = "notutf8"
       THEN Raise("UnicodeDecodeError")
       ELSE IF response.kind = "notjson"
       THEN /\ Break("decode")
            /\ UNCHANGED <<page, has_more, response, idx, attempt, posts>>
       ELSE IF response.kind = "nohits"
       THEN Raise("KeyError")
       ELSE IF response.hits = << >>
       THEN /\ Break("empty")
            /\ has_more' = FALSE
            /\ UNCHANGED <<page, response, idx, attempt, posts>>
       ELSE /\ pc' = "item"
            /\ idx' = 1
            /\ UNCHANGED <<cur, page, has_more, response, attempt, posts>>
    /\ UNCHANGED <<api, combined, progress, records, run, coll, prev>>

\* lines 192-206: the next hit of the page; item["objectID"] raises KeyError
\* when the hit has none, and no except of the function names KeyError;
\* open(..., 'w') creates or truncates the record file
OpenRecord ==
    /\ pc = "item"
    /\ LET item == response.hits[idx] IN
       IF ~item.hasId
       THEN /\ Raise("objectID")
            /\ UNCHANGED records
       ELSE /\ records' = [records EXCEPT
                              ![coll][record_filename(item)] = EmptyFile]
            /\ pc' = "dump"
            /\ UNCHANGED <<cur, page, has_more, response, idx, attempt, posts>>
    /\ UNCHANGED <<api, combined, progress, run, coll, prev>>

\* line 207: json.dump(item_data, f), then the next hit or, after the last
\* one, save_progress
DumpRecord ==
    /\ pc = "dump"
    /\ LET item == response.hits[idx] IN
       records' = [records EXCEPT
                      ![coll][record_filename(item)] =
                          JsonFile(item_data(item))]
    /\ IF idx < Len(response.hits)
       THEN idx' = idx + 1 /\ pc' = "item"
       ELSE idx' = idx /\ pc' = "save"
    /\ UNCHANGED <<api, combined, progress, run, coll, page, has_more,
                   response, attempt, posts, cur, prev>>

\* what a failed record write leaves of the file: open that raises leaves it
\* as it was; json.dump that raises (the disk is full) leaves a part of the
\* document, cut between two characters or inside one
write_failure_leaves(at, file) ==
    IF at = "item" THEN {file} ELSE {EmptyFile, CutFile}

\* the record writes that failed in this run of the program
WriteFailures == cur[1].ioerr.n + cur[2].ioerr.n + cur[3].ioerr.n

\* a fetcher whose loops end at the first record write that fails
RecordWriteAborts ==
    /\ pc \in {"item", "dump"}
    /\ WriteFailures < MaxWriteFailures
    /\ response.hits[idx].hasId
    /\ pc' = "after_loop"
    /\ cur' = [cur EXCEPT
                  ![coll].ioerr = [page |-> page, idx |-> idx, n |-> @.n + 1],
                  ![coll].cause = "IOError"]
    /\ UNCHANGED <<api, combined, progress, records, run, coll, page,
                   has_more, response, idx, attempt, posts, prev>>

\* lines 205-209: open or json.dump raises IOError; the except of line 208
\* prints it and the for loop of line 192 goes on with the next hit
RecordWriteFails ==
    /\ pc \in {"item", "dump"}
    /\ WriteFailures < MaxWriteFailures
    /\ LET item == response.hits[idx] IN
        /\ item.hasId
        /\ \E left \in write_failure_leaves(
                            pc, records[coll][record_filename(item)]) :
              records' = [records EXCEPT
                             ![coll][record_filename(item)] = left]
    /\ cur' = [cur EXCEPT
                  ![coll].ioerr = [page |-> page, idx |-> idx, n |-> @.n + 1]]
    /\ IF idx < Len(response.hits)
       THEN idx' = idx + 1 /\ pc' = "item"
       ELSE idx' = idx /\ pc' = "save"
    /\ UNCHANGED <<api, combined, progress, run, coll, page, has_more,
                   response, attempt, posts, prev>>

\* lines 211 and 70: save_progress opens the checkpoint file for writing
SaveProgressOpen ==
    /\ pc = "save"
    /\ progress' = [progress EXCEPT ![coll] = EmptyProgress]
    /\ pc' = "save_dump"
    /\ UNCHANGED <<api, combined, records, run, coll, page, has_more,
                   response, idx, attempt, posts, cur, prev>>

\* lines 71 and 212-215: the checkpoint is written, page advances, and the
\* loop of line 164 goes round
SaveProgressDump ==
    /\ pc = "save_dump"
    /\ progress' = [progress EXCEPT ![coll] = save_progress(page)]
    /\ page' = page + 1
    /\ response' = NoResponse
    /\ idx' = 0
    /\ attempt' = 0
    /\ posts' = NoPosts
    /\ pc' = "request"
    /\ UNCHANGED <<api, combined, records, run, coll, has_more, cur, prev>>

\* a fetcher that never removes the checkpoint
remove_progress_never(more) == FALSE

\* a fetcher that removes the checkpoint however the loop ended
remove_progress_always(more) == TRUE

\* line 222: the checkpoint is removed when the loop ended on an empty page
remove_progress(more) == ~more

\* lines 222-225, and the return to the caller
Finish ==
    /\ pc = "after_loop"
    /\ progress' = [progress EXCEPT
                       ![coll] = IF remove_progress(has_more)
                                 THEN NoProgress ELSE @]
    /\ pc' = "returned"
    /\ cur' = [cur EXCEPT
                  ![coll].outcome = IF has_more THEN "aborted" ELSE "done",
                  ![coll].page = page]
    /\ NoLocals
    /\ UNCHANGED <<api, combined, records, run, coll, prev>>

(***************************************************************************)
(* combine_json_files                                                      *)
(***************************************************************************)
\* a suffix test that matches no record file
endswith_json_never(filename) == FALSE

\* line 239
endswith_json(filename) ==
    filename # << >> /\ filename[Len(filename)] = ".json"

\* lines 236-246: json_list, one element per file of the directory that
\* json.load accepts; os.listdir fixes no order, so the array is a bag
json_list(dir) ==
    LET read == {f \in DOMAIN dir :
                    /\ dir[f].st # "absent"
                    /\ endswith_json(f)
                    /\ dir[f].st = "json"}
        contents == {dir[f].data : f \in read}
    IN  [d \in contents |-> Cardinality({f \in read : dir[f].data = d})]

\* lines 241-246: json.load of a file that is not UTF-8 raises
\* UnicodeDecodeError, which the except of line 245 (IOError,
\* json.JSONDecodeError) does not name
json_load_raises(dir) ==
    \E f \in DOMAIN dir : endswith_json(f) /\ dir[f].st = "notutf8"

\* a __main__ that combines a collection only when its fetcher met an
\* empty page
combine_if_done ==
    /\ pc = "returned"
    /\ combined' = IF cur[coll].outcome = "done"
                   THEN [combined EXCEPT
                            ![coll] = [st |-> "json",
                                       items |-> json_list(records[coll])]]
                   ELSE combined
    /\ IF coll < 3
       THEN coll' = coll + 1 /\ pc' = "check"
       ELSE coll' = coll /\ pc' = "exit"
    /\ UNCHANGED <<api, progress, records, run, page, has_more, response,
                   idx, attempt, posts, cur, prev>>

\* lines 261, 266, 272 with 228-253: the combiner runs on the collection's
\* directory whatever the fetcher did, then __main__ goes on; an exception
\* of the reading loop leaves before the output file is opened (line 249)
combine_json_files ==
    /\ pc = "returned"
    /\ IF json_load_raises(records[coll])
       THEN /\ pc' = "raised"
            /\ UNCHANGED <<combined, coll>>
       ELSE /\ combined' = [combined EXCEPT
                               ![coll] = [st |-> "json",
                                          items |-> json_list(records[coll])]]
            /\ IF coll < 3
               THEN coll' = coll + 1 /\ pc' = "check"
               ELSE coll' = coll /\ pc' = "exit"
    /\ UNCHANGED <<api, progress, records, run, page, has_more, response,
                   idx, attempt, posts, cur, prev>>

(***************************************************************************)
(* Runs                                                                    *)
(***************************************************************************)
Remember ==
    /\ prev' = [cur |-> cur, progress |-> progress,
                done |-> prev.done \cup
                             {c \in Collections : cur[c].outcome = "done"}]
    /\ cur' = [c \in Collections |-> NotCalled]

\* the program is started again after it ended, normally or by an exception
Restart ==
    /\ pc \in {"exit", "raised"}
    /\ run < MaxRuns
    /\ run' = run + 1
    /\ coll' = 1
    /\ pc' = "check"
    /\ Remember
    /\ NoLocals
    /\ UNCHANGED <<api, combined, progress, records>>

FetcherAt == {"request", "response", "item", "dump", "save", "save_dump",
              "after_loop"}

\* the process is killed inside process_articles_or_questions
Kill ==
    /\ pc \in FetcherAt
    /\ pc' = "killed"
    /\ cur' = [cur EXCEPT ![coll].outcome = "killed", ![coll].cause = pc,
                          ![coll].page = page]
    /\ NoLocals
    /\ UNCHANGED <<api, combined, progress, records, run, coll, prev>>

\* process_articles_or_questions is called again for the same collection
FetchAgain ==
    /\ pc \in {"returned", "raised", "killed"}
    /\ run < MaxFetchRuns
    /\ run' = run + 1
    /\ pc' = "check"
    /\ Remember
    /\ NoLocals
    /\ UNCHANGED <<api, combined, progress, records, coll>>

Fetcher ==
    \/ CheckExisting
    \/ request_with_retries
    \/ HandleResponse
    \/ OpenRecord
    \/ DumpRecord
    \/ SaveProgressOpen
    \/ SaveProgressDump
    \/ Finish

\* the program: __main__, run after run
Next == Fetcher \/ combine_json_files \/ Restart

Spec == Init /\ [][Next]_vars

\* process_articles_or_questions for articles, call after call, each call
\* ending by itself or by the process being killed
NextFetch == Fetcher \/ Kill \/ FetchAgain

SpecFetch == InitFetch /\ [][NextFetch]_vars

\* one call of process_articles_or_questions for articles on an empty disk,
\* which goes on as long as it has a step to take: nothing stops the process
SpecRun == InitFetch /\ [][Fetcher]_vars /\ WF_vars(Fetcher)

\* the checkpoint files load_progress can meet
CheckpointFiles ==
    {NoProgress, EmptyProgress, UnreadableProgress, NonObjectProgress,
     NoPageProgress} \cup {PageProgress(n) : n \in 0..(MaxPage + 1)}

\* one call of process_articles_or_questions for articles, with no combined
\* file and no record, on any checkpoint file
InitLoad ==
    /\ api \in {[c \in Collections |-> IF c = 1 THEN f ELSE PlainApi] :
                    f \in ApiSet}
    /\ combined = [c \in Collections |-> NoCombined]
    /\ records = [c \in Collections |-> [f \in FileNames |-> NoFile]]
    /\ progress \in {[c \in Collections |-> IF c = 1 THEN pf ELSE NoProgress] :
                         pf \in CheckpointFiles}
    /\ run = 1
    /\ coll = 1
    /\ pc = "check"
    /\ page = 0
    /\ has_more = TRUE
    /\ response = NoResponse
    /\ idx = 0
    /\ attempt = 0
    /\ posts = NoPosts
    /\ cur = [c \in Collections |-> NotCalled]
    /\ prev = [cur |-> [c \in Collections |-> NotCalled],
               progress |-> progress,
               done |-> {}]

SpecLoad == InitLoad /\ [][Fetcher]_vars

\* the program, run after run, on a disk whose record writes can fail; the
\* API answers every page of articles with hits or with none, and has
\* nothing for the other two collections
InitDisk ==
    /\ api \in {[c \in Collections |-> IF c = 1 THEN f ELSE EmptyApi] :
                    f \in [Pages -> {PageA, PageB, EmptyPage}]}
    /\ FreshFiles
    /\ Start

NextDisk == Next \/ RecordWriteFails

SpecDisk == InitDisk /\ [][NextDisk]_vars

(***************************************************************************)
(* Properties                                                              *)
(***************************************************************************)
\* where the fetcher of collection coll is running or has just ended
InOrAfterFetcher == pc \in FetcherAt \cup {"returned", "raised"}

\* C1: a call of process_articles_or_questions made while the collection's
\* combined file exists sends no POST and ends as skipped, whatever the
\* checkpoint and the record directory hold.
C1_SkipIfCombined ==
    (InOrAfterFetcher /\ combined[coll].st # "absent")
        => (cur[coll].first = -1 /\ cur[coll].outcome = "skipped")

\* a skipped call with a checkpoint and record files on disk
C1_Witness ==
    /\ pc = "returned"
    /\ cur[coll].outcome = "skipped"
    /\ progress[coll].st = "object"
    /\ \E f \in FileNames : records[coll][f].st = "json"

\* C2: after a run of the program in which a collection's fetch was aborted
\* with a checkpoint saved at page P, the next run fetches the collection
\* again and its first request is for page P.
C2_ResumeAcrossRuns ==
    \A c \in Collections :
        (/\ prev.cur[c].outcome = "aborted"
         /\ prev.progress[c].st = "object"
         /\ cur[c].outcome \in {"skipped", "done", "aborted", "raised"})
            => (/\ cur[c].outcome # "skipped"
                /\ cur[c].first = prev.progress[c].page)

\* C3: a parsed response with zero hits ends the loop at once, with no
\* record written and no further POST; the call then ends in DONE with the
\* checkpoint file absent (unless the process is killed first).
C3_EmptyPageEnds ==
    /\ [][(pc = "response" /\ response.kind = "json"
                           /\ response.hits = << >>)
            => (/\ pc' \in {"after_loop", "killed"}
                /\ pc' = "after_loop" => ~has_more'
                /\ records' = records
                /\ cur'[coll].first = cur[coll].first)]_vars
    /\ [][(pc = "after_loop" /\ ~has_more)
            => (/\ pc' \in {"returned", "killed"}
                /\ pc' = "returned" =>
                       (/\ cur'[coll].outcome = "done"
                        /\ progress'[coll].st = "absent")
                /\ records' = records)]_vars
    /\ []((pc = "returned" /\ cur[coll].cause = "empty")
            => (cur[coll].outcome = "done" /\ progress[coll].st = "absent"))

\* a call that resumed at a checkpoint, met the empty page and ended in DONE
C3_Witness ==
    /\ pc = "returned"
    /\ cur[coll].outcome = "done"
    /\ cur[coll].first >= 1
    /\ cur[coll].page > cur[coll].first
    /\ prev.progress[coll].st = "object"

\* the directory after the hits of one page, from the i-th on, were written
\* in response order; a hit without objectID stops the writing
RECURSIVE WriteHits(_, _, _)
WriteHits(dir, hits, i) ==
    IF i > Len(hits) \/ ~hits[i].hasId THEN dir
    ELSE WriteHits([dir EXCEPT ![record_filename(hits[i])] =
                                   JsonFile(item_data(hits[i]))],
                   hits, i + 1)

\* the directory one call of the fetcher leaves that starts at page p with
\* directory dir, is never interrupted and has no failed POST
RECURSIVE UninterruptedRun(_, _, _)
UninterruptedRun(a, dir, p) ==
    LET b == IF p \in Pages THEN a[p] ELSE EmptyPage IN
    IF b.kind = "json" /\ b.hits # << >>
    THEN IF \A i \in 1..Len(b.hits) : b.hits[i].hasId
         THEN UninterruptedRun(a, WriteHits(dir, b.hits, 1), p + 1)
         ELSE WriteHits(dir, b.hits, 1)
    ELSE dir

EmptyDir == [f \in FileNames |-> NoFile]

\* C4: for a fixed mapping page -> hits, whenever a call of the fetcher ends
\* in DONE, after any number of calls that were killed at any point or were
\* aborted, the record directory holds exactly the files, with the contents,
\* that one uninterrupted call from page 0 on an empty directory leaves.
C4_ResumeIdempotence ==
    (pc = "returned" /\ cur[coll].outcome = "done")
        => records[coll] = UninterruptedRun(api[coll], EmptyDir, 0)

\* DONE after a call that was killed between open and json.dump of a record
\* of a later page than the checkpoint's
C4_Witness ==
    /\ pc = "returned"
    /\ cur[coll].outcome = "done"
    /\ prev.cur[coll].outcome = "killed"
    /\ prev.cur[coll].cause = "dump"
    /\ prev.progress[coll].st = "object"
    /\ prev.cur[coll].page > prev.progress[coll].page
    /\ cur[coll].first = prev.progress[coll].page

C6_BoundedRetry ==
    /\ posts.sent <= 3
    /\ posts.failed <= posts.sent
    /\ pc = "request" => posts.failed = posts.sent
    /\ pc = "response" =>
          /\ posts.sent >= 1
          /\ (response.kind = "none") <=> (posts.failed = 3)
          /\ response.kind # "none" => posts.sent = posts.failed + 1

\* a response returned by the third POST after two failed ones
C6_Witness ==
    /\ pc = "response"
    /\ response.kind # "none"
    /\ posts.sent = 3
    /\ posts.failed = 2

\* C7: when the fetch of an earlier collection failed in a run of the
\* program, the fetcher and the combiner of every later collection are
\* still started: a run that is over has combined the third collection.
C7_CollectionIsolation ==
    (/\ pc \in {"exit", "raised"}
     /\ \E c \in Collections : cur[c].outcome \in {"aborted", "raised"})
        => (pc = "exit" /\ \A c \in Collections : cur[c].outcome # "none")

\* page p of collection c holds a hit without objectID
HasHitWithoutId(c, p) ==
    \E i \in 1..Len(Body(c, p).hits) : ~Body(c, p).hits[i].hasId

\* C8: a hit without objectID is skipped, the for loop goes on with the next
\* hit or with save_progress; after such a page the other hits' record files
\* exist, the checkpoint holds the page and the next page is requested.
C8_MissingObjectIdSkipped ==
    /\ [][(pc = "item" /\ ~response.hits[idx].hasId)
            => (/\ pc' \in {"item", "save"}
                /\ records' = records
                /\ page' = page)]_vars
    /\ [](\A p \in Pages :
            (/\ pc = "request"
             /\ page = p + 1
             /\ cur[coll].first <= p
             /\ HasHitWithoutId(coll, p))
                => (/\ progress[coll] = PageProgress(p)
                    /\ \A i \in 1..Len(Body(coll, p).hits) :
                          Body(coll, p).hits[i].hasId =>
                              records[coll][record_filename(
                                  Body(coll, p).hits[i])].st = "json"))

\* C9: a response body that is not the expected structure ends the loop in
\* ABORTED: no exception leaves the function, no record file is written for
\* the page and the checkpoint file stays as it is.
C9_MalformedAbortsCleanly ==
    /\ [][(pc = "response"
             /\ response.kind \in {"notjson", "nohits", "notutf8"})
            => (/\ pc' = "after_loop"
                /\ has_more'
                /\ records' = records
                /\ progress' = progress)]_vars
    /\ [][(pc = "after_loop" /\ cur[coll].cause = "decode")
            => (/\ pc' = "returned"
                /\ cur'[coll].outcome = "aborted"
                /\ records' = records
                /\ progress' = progress)]_vars

\* in the first run of the program, on the empty disk, the fetch of
\* collection c ended in DONE without a failed POST and its combine is over
FreshRunDone(c) ==
    /\ run = 1
    /\ cur[c].outcome = "done"
    /\ ~cur[c].failed
    /\ c < coll \/ pc = "exit"

\* the hits of the non-empty pages 0..T-1, T the page the fetch ended at
HitsFetched(c) ==
    UNION {{Body(c, p).hits[i] : i \in 1..Len(Body(c, p).hits)} :
              p \in 0..(cur[c].page - 1)}

FilesOf(c) == {f \in FileNames : records[c][f].st # "absent"}

\* the checkpoint holds the page just processed when the next is requested
CheckpointAfterEachPage ==
    (run = 1 /\ pc = "request" /\ page > 0)
        => progress[coll] = PageProgress(page - 1)

\* C10 as stated: a fresh fetch and combine leave one record file per
\* distinct objectID, the checkpoint written after each page and deleted at
\* the end, and a combined array with one element per record file.
C10_FreshRunPerObjectId ==
    /\ CheckpointAfterEachPage
    /\ \A c \in Collections :
          FreshRunDone(c) =>
              /\ Cardinality(FilesOf(c)) =
                     Cardinality({h.objectID : h \in HitsFetched(c)})
              /\ progress[c].st = "absent"
              /\ combined[c].st = "json"
              /\ BagCardinality(combined[c].items) = Cardinality(FilesOf(c))

\* C10, amended: a fresh fetch and combine leave one record file per
\* distinct sanitized objectID (objectIDs that sanitize_filename maps to the
\* same name share one file), each holding a record, the checkpoint written
\* after each page and deleted at the end, and a combined array with one
\* element per record file, the file's record.
C10_FreshRunPerFileName ==
    /\ CheckpointAfterEachPage
    /\ \A c \in Collections :
          FreshRunDone(c) =>
              /\ FilesOf(c) = {record_filename(h) : h \in HitsFetched(c)}
              /\ \A f \in FilesOf(c) : records[c][f].st = "json"
              /\ progress[c].st = "absent"
              /\ combined[c].st = "json"
              /\ BagCardinality(combined[c].items) = Cardinality(FilesOf(c))
              /\ \A f \in FilesOf(c) :
                    BagIn(records[c][f].data, combined[c].items)

\* a fresh run over two non-empty pages whose three objectIDs make two files
C10_Witness ==
    \E c \in Collections :
        /\ FreshRunDone(c)
        /\ cur[c].page = 2
        /\ Cardinality({h.objectID : h \in HitsFetched(c)}) = 3
        /\ Cardinality(FilesOf(c)) = 2
        /\ BagCardinality(combined[c].items) = 2

\* the record files of a directory that json.load accepts
ValidRecords(dir) == {f \in DOMAIN dir : dir[f].st = "json"}

\* C11: the combiner, on a directory of N valid record files and M unreadable
\* or unparsable ones, ends without an exception, leaves an output array of
\* exactly N elements in place of whatever the output file held, and changes
\* no record file and no checkpoint file
C11_CombineSkipsUnreadable ==
    [][pc = "returned" =>
          /\ pc' \in {"check", "exit"}
          /\ combined'[coll].st = "json"
          /\ BagCardinality(combined'[coll].items) =
                 Cardinality(ValidRecords(records[coll]))
          /\ records' = records
          /\ progress' = progress]_vars

\* the page the checkpoint file names, 0 without a checkpoint
CheckpointedPage(pf) == IF pf.st = "object" /\ pf.hasPage THEN pf.page ELSE 0

\* C12: within one fetch run the first page requested is the checkpointed
\* page the run found (0 without a checkpoint), every successful request is
\* for the page after the one of the successful request before it, and no
\* request is for a page a request of the run already succeeded for
C12_PageOrdering ==
    [][/\ (cur[coll].first = -1 /\ cur'[coll].first # -1) =>
              cur'[coll].first = CheckpointedPage(prev.progress[coll])
       /\ (run' = run /\ cur'[coll].last # cur[coll].last) =>
              cur'[coll].last = IF cur[coll].last = -1
                                THEN CheckpointedPage(prev.progress[coll])
                                ELSE cur[coll].last + 1
       /\ (pc = "request" /\ posts'.sent > posts.sent) =>
              page > cur[coll].last]_vars

\* a run that found the checkpoint of page 1 had requests succeed for page 1
\* and then page 2
C12_Witness ==
    /\ prev.progress[coll] = PageProgress(1)
    /\ cur[coll].first = 1
    /\ cur[coll].last = 2

\* C13: once the fetcher of a collection has ended in DONE, by an empty page
\* or by finding the combined file, the collection's checkpoint file does
\* not exist
C13_DoneDeletesCheckpoint ==
    \A c \in Collections :
        cur[c].outcome \in {"done", "skipped"} => progress[c].st = "absent"

\* C14: a collection's combined file exists only if the collection's fetcher
\* has ended in DONE on an empty page, in this run of the program or in one
\* before
C14_CombinedMeansDone ==
    \A c \in Collections :
        combined[c].st # "absent" =>
            cur[c].outcome = "done" \/ c \in prev.done

\* C15: a fetch loop left through ABORTED (no response after the retries, or
\* a body that is not JSON) leaves the checkpoint file as it was before the
\* page was requested: no step from the request of a page to the return of
\* an aborted fetcher changes it, so after the return it is the file the run
\* found (abort on the run's first page) or the one written for the page
\* before; and the checkpoint is deleted only after an empty page
C15_AbortKeepsCheckpoint ==
    /\ [][/\ (pc \in {"request", "response"} \/ (pc = "after_loop" /\ has_more))
              => progress' = progress
          /\ (progress[coll].st # "absent" /\ progress'[coll].st = "absent")
              => (pc = "after_loop" /\ cur[coll].cause = "empty")]_vars
    /\ [](pc = "returned" /\ cur[coll].outcome = "aborted" =>
            /\ cur[coll].cause \in {"failure", "decode"}
            /\ progress[coll] = IF cur[coll].page = cur[coll].first
                                THEN prev.progress[coll]
                                ELSE PageProgress(cur[coll].page - 1))

\* a resumed fetcher has aborted on its first page and the checkpoint it
\* found is still there
C15_Witness ==
    /\ pc = "returned"
    /\ cur[coll].outcome = "aborted"
    /\ cur[coll].page = cur[coll].first
    /\ progress[coll] = PageProgress(1)

\* the fetcher of collection c has ended in DONE (on an empty page or by
\* finding the combined file) or in ABORTED
FetcherEnded(c) == cur[c].outcome \in {"done", "skipped", "aborted"}

\* C16: __main__ takes the collections in the order articles, news_articles,
\* questions; the combiner of a collection starts only after the collection's
\* fetcher has ended, and runs whether that ended in DONE, skipped or
\* ABORTED; the fetcher of the next collection starts only after that
\* combiner has written its output
C16_DriverSequencing ==
    /\ [](pc = "check" =>
            /\ \A d \in Collections : d < coll => FetcherEnded(d)
            /\ \A d \in Collections : d >= coll => cur[d].outcome = "none")
    /\ [][/\ (run' = run /\ coll' # coll) =>
                /\ coll' = coll + 1
                /\ pc = "returned"
                /\ pc' = "check"
                /\ combined'[coll].st = "json"
          /\ combined' # combined =>
                /\ pc = "returned"
                /\ FetcherEnded(coll)
                /\ \A d \in Collections \ {coll} : combined'[d] = combined[d]
          /\ (pc = "returned" /\ FetcherEnded(coll)) =>
                /\ combined'[coll].st = "json"
                /\ BagCardinality(combined'[coll].items) =
                       Cardinality(ValidRecords(records[coll]))
                /\ pc' = IF coll < 3 THEN "check" ELSE "exit"]_vars

\* a run of the program has ended in which the fetcher of articles was
\* skipped, that of news_articles aborted and that of questions met an empty
\* page, and all three combined files are there
C16_Witness ==
    /\ pc = "exit"
    /\ cur[1].outcome = "skipped"
    /\ cur[2].outcome = "aborted"
    /\ cur[3].outcome = "done"
    /\ \A c \in Collections : combined[c].st = "json"

\* the hits of page p of the collection after hit i have their record files,
\* each holding the hit's item_data
LaterHitsWritten(p, i) ==
    LET hits == Body(coll, p).hits IN
    \A j \in (i + 1)..Len(hits) :
        /\ hits[j].hasId
        /\ records[coll][record_filename(hits[j])] =
               JsonFile(item_data(hits[j]))

\* C17: a record write that fails with an I/O error does not end the page:
\* the step goes on with the next hit, or with save_progress after the last
\* one, and touches no checkpoint; the fetcher does not leave the page
\* before the hits after the failed one are written, and it requests the
\* next page with the checkpoint holding the number of the page of the
\* failure
C17_WriteFailureSkipsOneHit ==
    /\ [][cur'[coll].ioerr.n > cur[coll].ioerr.n =>
              /\ pc' = IF idx < Len(response.hits) THEN "item" ELSE "save"
              /\ idx' = IF idx < Len(response.hits) THEN idx + 1 ELSE idx
              /\ page' = page
              /\ progress' = progress]_vars
    /\ [](LET e == cur[coll].ioerr IN
          (e.n > 0 /\ pc \in FetcherAt) =>
              /\ page >= e.page
              /\ page = e.page =>
                     /\ pc \in {"item", "dump", "save", "save_dump"}
                     /\ pc \in {"save", "save_dump"} =>
                            LaterHitsWritten(e.page, e.idx)
              /\ (page = e.page + 1 /\ pc = "request") =>
                     /\ progress[coll] = PageProgress(e.page)
                     /\ LaterHitsWritten(e.page, e.idx))

\* the write of the first hit of page 0 failed, the second hit was written,
\* the checkpoint holds page 0 and page 1 is being requested
C17_Witness ==
    /\ pc = "request"
    /\ page = 1
    /\ cur[coll].ioerr = [page |-> 0, idx |-> 1, n |-> 1]
    /\ records[coll][record_filename(Body(coll, 0).hits[1])].st # "json"
    /\ records[coll][record_filename(Body(coll, 0).hits[2])].st = "json"
    /\ progress[coll] = PageProgress(0)

\* C18: load_progress never raises and returns the stored page, or 0 when
\* the checkpoint file is absent, unreadable, not JSON, not an object or an
\* object without page: a fetcher that does not find the combined file goes
\* on to request that page, whatever the checkpoint file holds
C18_LoadProgressTotal ==
    [][(pc = "check" /\ combined[coll].st = "absent") =>
          /\ pc' = "request"
          /\ page' = CheckpointedPage(progress[coll])]_vars

\* a record file exists for every hit of the pages 0..p of collection c
RecordsExistUpTo(c, p) ==
    \A q \in 0..p :
        LET hits == Body(c, q).hits IN
        \A j \in 1..Len(hits) :
            /\ hits[j].hasId
            /\ records[c][record_filename(hits[j])].st # "absent"

C20_FetchRunTerminates ==
    /\ [](posts.sent <= 3)
    /\ <>(pc = "returned" /\ cur[coll].outcome \in {"done", "aborted"})
====
